---- MODULE Spec2Model ----
(***************************************************************************)
(* Model of num-rational-parse: RationalParse::from_str_flex for Ratio<T>, *)
(* T a bounded signed integer type (src/src/lib.rs).                       *)
(*                                                                         *)
(* An input string is a sequence of characters.  An ASCII character is the *)
(* one-character string; three non-ASCII characters are named:             *)
(*   "FW3"  U+FF13 FULLWIDTH DIGIT THREE  (General_Category Nd, 3 bytes)   *)
(*   "FW0"  U+FF10 FULLWIDTH DIGIT ZERO   (General_Category Nd, 3 bytes)   *)
(*   "SUP3" U+00B3 SUPERSCRIPT THREE      (General_Category No, 2 bytes)   *)
(* and "TAB" is U+0009.                                                    *)
(***************************************************************************)
EXTENDS Integers, Sequences, FiniteSets, TLC

\* ------------------------------------------------------------------ bounds

\* Longest input enumerated exhaustively over Alphabet.
MaxLen == 4

\* Largest number of zeros appended to a fractional part.
MaxZeros == 3

\* Width in bits of the i32 the exponent is parsed into.
ExpBits == 32

\* ------------------------------------------------------------- characters

AsciiDigits == {"0", "1", "2", "3", "4", "5", "6", "7", "8", "9"}

\* \d of the regex crate: Unicode is on by default, so \d is \p{Nd}.
IsDigit(c) == c \in AsciiDigits \cup {"FW3", "FW0"}

\* \s of the regex crate: \p{White_Space}.
IsSpace(c) == c \in {" ", "TAB"}

\* Number of bytes of the character in UTF-8 (str::len counts bytes).
Utf8Len(c) == IF c \in {"FW3", "FW0"} THEN 3 ELSE IF c = "SUP3" THEN 2 ELSE 1

\* char::to_digit(10) as used by the integer FromStr: ASCII digits only.
DigitVal(c) ==
  CASE c = "0" -> 0 [] c = "1" -> 1 [] c = "2" -> 2 [] c = "3" -> 3
    [] c = "4" -> 4 [] c = "5" -> 5 [] c = "6" -> 6 [] c = "7" -> 7
    [] c = "8" -> 8 [] c = "9" -> 9 [] OTHER -> -1

\* ------------------------------------------------------- integer types

\* The signed integer types T the parser is instantiated at in the model.
Widths == {8, 16}

MaxOf(bits) == (2 ^ (bits - 2) - 1) * 2 + 1
MinOf(bits) == (0 - 2 ^ (bits - 2)) * 2

None == [some |-> FALSE, val |-> 0]
Some(v) == [some |-> TRUE, val |-> v]

InRange(v, bits) == MinOf(bits) <= v /\ v <= MaxOf(bits)

\* <iN as FromStr>::from_str: optional sign, then at least one ASCII digit;
\* the value is accumulated digit by digit with checked arithmetic, towards
\* the negative side after a '-'.
RECURSIVE FromStrAcc(_, _, _, _, _)
FromStrAcc(s, i, acc, neg, bits) ==
  IF i > Len(s) THEN Some(acc)
  ELSE LET d == DigitVal(s[i]) IN
    IF d < 0 THEN None
    ELSE IF neg
      THEN IF acc < (MinOf(bits) + 9) \div 10 THEN None
           ELSE IF acc * 10 < MinOf(bits) + d THEN None
           ELSE FromStrAcc(s, i + 1, acc * 10 - d, neg, bits)
      ELSE IF acc > MaxOf(bits) \div 10 THEN None
           ELSE IF acc * 10 > MaxOf(bits) - d THEN None
           ELSE FromStrAcc(s, i + 1, acc * 10 + d, neg, bits)

\* Variant: the digits are accumulated on the negative side whatever the
\* sign and negated at the end, so that the magnitude 2^(w-1) is let through.
FromStrIntNegated(s, bits) ==
  IF Len(s) = 0 THEN None
  ELSE IF s[1] = "-"
    THEN IF Len(s) = 1 THEN None ELSE FromStrAcc(s, 2, 0, TRUE, bits)
    ELSE LET r == FromStrAcc(s, IF s[1] = "+" THEN 2 ELSE 1, 0, TRUE, bits) IN
         IF Len(s) = 1 /\ s[1] = "+" THEN None
         ELSE IF ~r.some THEN None
         ELSE Some(IF r.val = MinOf(bits) THEN r.val ELSE 0 - r.val)

FromStrInt(s, bits) ==
  IF Len(s) = 0 THEN None
  ELSE IF s[1] \in {"+", "-"}
    THEN IF Len(s) = 1 THEN None
         ELSE FromStrAcc(s, 2, 0, s[1] = "-", bits)
    ELSE FromStrAcc(s, 1, 0, FALSE, bits)

\* Variant: the multiplication wraps around (wrapping_mul).
WrappingMul(a, b, bits) ==
  Some(((a * b - MinOf(bits)) % (2 ^ bits)) + MinOf(bits))

\* CheckedMul::checked_mul and CheckedAdd::checked_add on T.
CheckedMul(a, b, bits) == IF InRange(a * b, bits) THEN Some(a * b) ELSE None

\* Variant: the addition wraps around (wrapping_add).
WrappingAdd(a, b, bits) ==
  Some(((a + b - MinOf(bits)) % (2 ^ bits)) + MinOf(bits))

CheckedAdd(a, b, bits) == IF InRange(a + b, bits) THEN Some(a + b) ELSE None

\* num_traits::checked_pow, exponentiation by squaring: the first loop squares
\* the base while the exponent is even.
RECURSIVE PowEven(_, _, _)
PowEven(base, exp, bits) ==
  IF exp % 2 = 0
    THEN LET sq == CheckedMul(base, base, bits) IN
         IF sq.some THEN PowEven(sq.val, exp \div 2, bits)
         ELSE [some |-> FALSE, base |-> 0, exp |-> 0]
    ELSE [some |-> TRUE, base |-> base, exp |-> exp]

\* The second loop of checked_pow: multiply the odd powers into acc.
RECURSIVE PowLoop(_, _, _, _)
PowLoop(base, exp, acc, bits) ==
  IF exp > 1
    THEN LET sq == CheckedMul(base, base, bits) IN
         IF ~sq.some THEN None
         ELSE IF (exp \div 2) % 2 = 1
           THEN LET m == CheckedMul(acc, sq.val, bits) IN
                IF m.some THEN PowLoop(sq.val, exp \div 2, m.val, bits) ELSE None
           ELSE PowLoop(sq.val, exp \div 2, acc, bits)
    ELSE Some(acc)

\* Variant: the power is computed with wrapping multiplications.
RECURSIVE WrappingPowVal(_, _, _)
WrappingPowVal(base, exp, bits) ==
  IF exp = 0 THEN 1
  ELSE LET h == WrappingPowVal(WrappingMul(base, base, bits).val, exp \div 2, bits)
       IN  IF exp % 2 = 1 THEN WrappingMul(base, h, bits).val ELSE h

WrappingPow(base, exp, bits) == Some(WrappingPowVal(base, exp, bits))

CheckedPow(base, exp, bits) ==
  IF exp = 0 THEN Some(1)
  ELSE LET e == PowEven(base, exp, bits) IN
    IF ~e.some THEN None
    ELSE IF e.exp = 1 THEN Some(e.base)
    ELSE PowLoop(e.base, e.exp, e.base, bits)

\* checked_pow(&ten, exp_val.unsigned_abs()): |i32::MIN| = 2^31 is even, so
\* the first loop squares the base once and goes on with 2^30.
CheckedPowAbs(base, expVal, bits) ==
  IF expVal = MinOf(ExpBits)
    THEN LET sq == CheckedMul(base, base, bits) IN
         IF sq.some THEN CheckedPow(sq.val, 2 ^ (ExpBits - 2), bits) ELSE None
    ELSE CheckedPow(base, IF expVal < 0 THEN 0 - expVal ELSE expVal, bits)

\* ------------------------------------------------------------ the grammar

\* Variant: only the blank counts as whitespace ([ ]* for \s*).
RECURSIVE SkipBlanks(_, _)
SkipBlanks(s, i) ==
  IF i <= Len(s) /\ s[i] = " " THEN SkipBlanks(s, i + 1) ELSE i

\* First index >= i whose character is not whitespace (\s*).
RECURSIVE SkipSpace(_, _)
SkipSpace(s, i) ==
  IF i <= Len(s) /\ IsSpace(s[i]) THEN SkipSpace(s, i + 1) ELSE i

\* First index >= i whose character is not a digit (\d*).
RECURSIVE SkipDigits(_, _)
SkipDigits(s, i) ==
  IF i <= Len(s) /\ IsDigit(s[i]) THEN SkipDigits(s, i + 1) ELSE i

\* (_\d+)* from index j on.
RECURSIVE SkipGroups(_, _)
SkipGroups(s, j) ==
  IF j + 1 <= Len(s) /\ s[j] = "_" /\ IsDigit(s[j + 1])
    THEN SkipGroups(s, SkipDigits(s, j + 1))
    ELSE j

\* End (exclusive) of the longest match of \d*|\d+(_\d+)* at i.  What may
\* follow a digit run in the grammar is never a digit or an underscore, so
\* only the longest match can be part of a match of the whole input.
DigitRunEnd(s, i) ==
  LET j == SkipDigits(s, i) IN IF j = i THEN i ELSE SkipGroups(s, j)

Slice(s, from, to) == IF to <= from THEN << >> ELSE SubSeq(s, from, to - 1)

Absent == [some |-> FALSE, str |-> << >>]
Present(str) == [some |-> TRUE, str |-> str]

NoMatch ==
  [matched |-> FALSE, sign |-> << >>, num |-> << >>,
   denom |-> Absent, decimal |-> Absent, exp |-> Absent]

Matched(sign, num, denom, decimal, exp) ==
  [matched |-> TRUE, sign |-> sign, num |-> num,
   denom |-> denom, decimal |-> decimal, exp |-> exp]

\* RATIONAL_FORMAT.captures(input): the groups sign, num, denom, decimal, exp.
Captures(s) ==
  LET n  == Len(s) + 1
      i0 == SkipSpace(s, 1)
      i1 == IF i0 < n /\ s[i0] \in {"-", "+"} THEN i0 + 1 ELSE i0
      i2 == DigitRunEnd(s, i1)
      sign == Slice(s, i0, i1)
      num  == Slice(s, i1, i2)
      \* first alternative: (?:\s*/\s*(?P<denom>\d+(_\d+)*))?
      a1 == SkipSpace(s, i2)
      a2 == SkipSpace(s, a1 + 1)
      a3 == DigitRunEnd(s, a2)
      fraction == a1 < n /\ s[a1] = "/" /\ a3 > a2 /\ SkipSpace(s, a3) = n
      bare == SkipSpace(s, i2) = n
      \* second alternative: (?:\.(?P<decimal>...))? (?:E(?P<exp>...))?
      hasDot == i2 < n /\ s[i2] = "."
      b1 == IF hasDot THEN DigitRunEnd(s, i2 + 1) ELSE i2
      decimal == IF hasDot THEN Present(Slice(s, i2 + 1, b1)) ELSE Absent
      b2 == IF b1 + 1 < n /\ s[b1 + 1] \in {"-", "+"} THEN b1 + 2 ELSE b1 + 1
      b3 == DigitRunEnd(s, b2)
      hasExp == b1 < n /\ s[b1] \in {"e", "E"} /\ b3 > b2
      exp == IF hasExp THEN Present(Slice(s, b1 + 1, b3)) ELSE Absent
      b4 == IF hasExp THEN b3 ELSE b1
  IN  IF fraction THEN Matched(sign, num, Present(Slice(s, a2, a3)), Absent, Absent)
      ELSE IF bare THEN Matched(sign, num, Absent, Absent, Absent)
      ELSE IF SkipSpace(s, b4) = n THEN Matched(sign, num, Absent, decimal, exp)
      ELSE NoMatch

\* ----------------------------------------------------------- the assembler

Contains(s, c) == \E i \in 1..Len(s) : s[i] = c

\* str::replace('_', "")
StripUnderscores(s) == SelectSeq(s, LAMBDA c : c # "_")

\* str::trim_end_matches('0')
RECURSIVE TrimEndZeros(_)
TrimEndZeros(s) ==
  IF Len(s) > 0 /\ s[Len(s)] = "0" THEN TrimEndZeros(SubSeq(s, 1, Len(s) - 1)) ELSE s

\* str::len: the length in bytes.
RECURSIVE ByteLen(_)
ByteLen(s) == IF Len(s) = 0 THEN 0 ELSE Utf8Len(s[1]) + ByteLen(Tail(s))

\* The closure parse_val.
ParseVal(s, bits) ==
  IF Len(s) = 0 THEN Some(0)
  ELSE IF Contains(s, "_") THEN FromStrInt(StripUnderscores(s), bits)
  ELSE FromStrInt(s, bits)

\* T::from_u8(10)
Ten(bits) == IF InRange(10, bits) THEN Some(10) ELSE None

\* The closure checked_pow applied to ten.
PowerOfTen(exp, bits) == CheckedPow(10, exp, bits)

Cont(n, d) == [err |-> "", numer |-> n, denom |-> d]
Fail(kind) == [err |-> kind, numer |-> 0, denom |-> 0]

\* The block `if let Some(dec) = decimal_str`, entered with denominator = 1.
DecimalStep(numer, dec, bits) ==
  LET dec_trimmed == TrimEndZeros(dec)
      dec_final == IF Contains(dec_trimmed, "_")
                     THEN StripUnderscores(dec_trimmed) ELSE dec_trimmed
      scale == PowerOfTen(ByteLen(dec_final), bits)
      dec_val == IF Len(dec_final) = 0 THEN Some(0) ELSE FromStrInt(dec_final, bits)
      m == CheckedMul(numer, scale.val, bits)
      a == CheckedAdd(m.val, dec_val.val, bits)
      d == CheckedMul(1, scale.val, bits)
  IN  IF ~scale.some THEN Fail("Overflow")
      ELSE IF ~dec_val.some THEN Fail("Overflow")
      ELSE IF ~m.some THEN Fail("Overflow")
      ELSE IF ~a.some THEN Fail("Overflow")
      ELSE IF ~d.some THEN Fail("Overflow")
      ELSE Cont(a.val, d.val)

\* Variant: an exponent that does not fit i32 is reported as Overflow.
ExponentStepOverflowKind(numer, denom, exp_s, bits) ==
  LET exp_final == IF Contains(exp_s, "_") THEN StripUnderscores(exp_s) ELSE exp_s
      exp_val == FromStrInt(exp_final, ExpBits)
      scale == CheckedPowAbs(10, exp_val.val, bits)
      n == CheckedMul(numer, scale.val, bits)
      d == CheckedMul(denom, scale.val, bits)
  IN  IF ~exp_val.some THEN Fail("Overflow")
      ELSE IF ~scale.some THEN Fail("Overflow")
      ELSE IF exp_val.val >= 0
        THEN IF n.some THEN Cont(n.val, denom) ELSE Fail("Overflow")
        ELSE IF d.some THEN Cont(numer, d.val) ELSE Fail("Overflow")

\* The block `if let Some(exp_s) = exp_str`.
ExponentStep(numer, denom, exp_s, bits) ==
  LET exp_final == IF Contains(exp_s, "_") THEN StripUnderscores(exp_s) ELSE exp_s
      exp_val == FromStrInt(exp_final, ExpBits)
      scale == CheckedPowAbs(10, exp_val.val, bits)
      n == CheckedMul(numer, scale.val, bits)
      d == CheckedMul(denom, scale.val, bits)
  IN  IF ~exp_val.some THEN Fail("ParseError")
      ELSE IF ~scale.some THEN Fail("Overflow")
      ELSE IF exp_val.val >= 0
        THEN IF n.some THEN Cont(n.val, denom) ELSE Fail("Overflow")
        ELSE IF d.some THEN Cont(numer, d.val) ELSE Fail("Overflow")

\* `if sign_str == "-" { numerator = -numerator; }`: Neg on T wraps at MIN in
\* a release build and panics in a debug build; the model keeps the wrapped
\* value.
Negate(v, bits) == IF v = MinOf(bits) THEN v ELSE 0 - v

RECURSIVE Gcd(_, _)
Gcd(a, b) == IF b = 0 THEN a ELSE Gcd(b, a % b)

Abs(v) == IF v < 0 THEN 0 - v ELSE v

Err(kind) == [kind |-> kind, numer |-> 0, denom |-> 0]

\* Ok(Ratio::new(numerator, denominator)): num_rational reduces to lowest
\* terms and keeps the denominator positive.
RatioNew(n, d) ==
  LET g == Gcd(Abs(n), Abs(d))
      s == IF d < 0 THEN 0 - 1 ELSE 1
  IN  [kind |-> "Ok", numer |-> s * (n \div g), denom |-> s * (d \div g)]

\* from_str_flex as a function of the input and the width of T.
FromStrFlex(s, bits) ==
  LET cap == Captures(s)
      num_has_digits == Len(cap.num) > 0
      decimal_has_digits == cap.decimal.some /\ Len(cap.decimal.str) > 0
      n0 == ParseVal(cap.num, bits)
      d0 == ParseVal(cap.denom.str, bits)
      afterDec == IF cap.decimal.some
                    THEN DecimalStep(n0.val, cap.decimal.str, bits)
                    ELSE Cont(n0.val, 1)
      afterExp == IF afterDec.err # "" THEN afterDec
                  ELSE IF cap.exp.some
                    THEN ExponentStep(afterDec.numer, afterDec.denom, cap.exp.str, bits)
                    ELSE afterDec
      assembled == IF cap.denom.some
                     THEN IF d0.some THEN Cont(n0.val, d0.val) ELSE Fail("Overflow")
                     ELSE afterExp
      signed == IF cap.sign = <<"-">>
                  THEN Negate(assembled.numer, bits) ELSE assembled.numer
  IN  IF ~cap.matched THEN Err("ParseError")
      ELSE IF ~num_has_digits /\ ~decimal_has_digits THEN Err("ParseError")
      ELSE IF ~Ten(bits).some THEN Err("ParseError")
      ELSE IF ~n0.some THEN Err("Overflow")
      ELSE IF assembled.err # "" THEN Err(assembled.err)
      ELSE IF assembled.denom = 0 THEN Err("ZeroDenominator")
      ELSE RatioNew(signed, assembled.denom)

\* ---------------------------------------------------------------- inputs

\* Characters of the inputs enumerated exhaustively up to MaxLen.
Alphabet == {"0", "1", "_", "/", ".", "e", "-", " "}

FreeStrings == UNION {[1..n -> Alphabet] : n \in 0..MaxLen}

DigitChar(d) == CHOOSE c \in AsciiDigits : DigitVal(c) = d

RECURSIVE ToDigits(_)
ToDigits(n) == IF n < 10 THEN <<DigitChar(n)>> ELSE Append(ToDigits(n \div 10), DigitChar(n % 10))

\* Digit strings around the largest value of each T and of the exponent's i32.
BoundaryDigits == UNION {{ToDigits(MaxOf(b)), ToDigits(MaxOf(b) + 1)} : b \in Widths}

ExpBoundaryDigits ==
  LET head == ToDigits(MaxOf(ExpBits) \div 10)
  IN  {Append(head, "7"), Append(head, "8"), <<"-">> \o Append(head, "8"),
       <<"-">> \o Append(head, "9")}

SignSamples == {<< >>, <<"-">>, <<"+">>}

NumSamples ==
  {<< >>, <<"0">>, <<"7">>, <<"0", "1", "2">>, <<"1", "_", "2">>} \cup BoundaryDigits

DenomSamples ==
  {<<"0">>, <<"0", "_", "0">>, <<"4">>, <<"1", "_", "0">>} \cup BoundaryDigits

DecimalSamples ==
  {<< >>, <<"0">>, <<"5">>, <<"8">>, <<"2", "5">>, <<"5", "_", "0">>, <<"0", "_", "5">>,
   <<"0", "0", "0">>, <<"0", "0", "0", "_", "0">>,
   <<"0", "0", "0", "0", "0">>, <<"0", "0", "0", "0", "0", "_", "0">>}

ExpSamples ==
  {<<"0">>, <<"1">>, <<"-", "1">>, <<"+", "2">>, <<"-", "2">>, <<"0", "_", "1">>,
   <<"5">>} \cup ExpBoundaryDigits

DecimalTails == {<< >>} \cup {<<".">> \o f : f \in DecimalSamples}

ExpTails == {<< >>} \cup {<<"e">> \o e : e \in ExpSamples} \cup {<<"E", "1">>}

Tails ==
  {<<"/">> \o d : d \in DenomSamples}
    \cup {f \o e : f \in DecimalTails, e \in ExpTails}

\* Literals put together from the samples: sign, integer part, tail.
Literals == {s \o n \o t : s \in SignSamples, n \in NumSamples, t \in Tails}

\* Literals that are disturbed by one inserted character.
BaseLiterals ==
  {s \o n \o t : s \in {<< >>, <<"-">>}, n \in {<< >>, <<"7">>, <<"1", "_", "2">>},
     t \in {<< >>, <<"/", "4">>, <<"/", "0">>, <<".">>, <<".", "5">>, <<".", "0">>,
            <<"e", "1">>, <<".", "5", "e", "-", "1">>, <<"e", "+", "2">>}}

InsertAt(s, i, c) == Slice(s, 1, i) \o <<c>> \o Slice(s, i, Len(s) + 1)

Inserted == {" ", "TAB", "FW3", "FW0", "SUP3", "_"}

Disturbed ==
  UNION {{InsertAt(s, i, c) : i \in 1..(Len(s) + 1), c \in Inserted} : s \in BaseLiterals}

Inputs == FreeStrings \cup Literals \cup Disturbed

\* ----------------------------------------------------------- the parser

VARIABLES
  T,            \* width in bits of the target type
  input,        \* the string passed to from_str_flex
  pc,           \* position in from_str_flex
  cap,          \* the captures of RATIONAL_FORMAT
  numerator,    \* the local numerator, None until assigned
  denominator,  \* the local denominator, None until assigned
  conversions,  \* digit runs handed to an integer conversion so far
  result        \* the value returned, kind "Pending" until the return

vars == <<T, input, pc, cap, numerator, denominator, conversions, result>>

Pending == [kind |-> "Pending", numer |-> 0, denom |-> 0]

Init ==
  /\ T \in Widths
  /\ input \in Inputs
  /\ pc = "match"
  /\ cap = NoMatch
  /\ numerator = None
  /\ denominator = None
  /\ conversions = 0
  /\ result = Pending

Return(r) == pc' = "done" /\ result' = r

\* RATIONAL_FORMAT.captures(input).ok_or(ParseError)?
Match ==
  /\ pc = "match"
  /\ cap' = Captures(input)
  /\ IF cap'.matched
       THEN pc' = "guard" /\ UNCHANGED result
       ELSE Return(Err("ParseError"))
  /\ UNCHANGED <<T, input, numerator, denominator, conversions>>

\* Variant: the guard takes a fractional part that is present for one that
\* has digits.
GuardDecimalPresent ==
  /\ pc = "guard"
  /\ LET num_has_digits == Len(cap.num) > 0
         decimal_has_digits == cap.decimal.some
     IN  IF ~num_has_digits /\ ~decimal_has_digits
           THEN Return(Err("ParseError"))
           ELSE pc' = "numerator" /\ UNCHANGED result
  /\ UNCHANGED <<T, input, cap, numerator, denominator, conversions>>

\* The check that stands in for the lookahead of the Python grammar.
Guard ==
  /\ pc = "guard"
  /\ LET num_has_digits == Len(cap.num) > 0
         decimal_has_digits == cap.decimal.some /\ Len(cap.decimal.str) > 0
     IN  IF ~num_has_digits /\ ~decimal_has_digits
           THEN Return(Err("ParseError"))
           ELSE pc' = "numerator" /\ UNCHANGED result
  /\ UNCHANGED <<T, input, cap, numerator, denominator, conversions>>

\* let ten = T::from_u8(10)...?; let mut numerator: T = parse_val(num_str)?;
ParseNumerator ==
  /\ pc = "numerator"
  /\ IF ~Ten(T).some
       THEN Return(Err("ParseError")) /\ UNCHANGED <<numerator, conversions>>
       ELSE LET n == ParseVal(cap.num, T) IN
            /\ conversions' = conversions + 1
            /\ IF n.some
                 THEN pc' = "branch" /\ numerator' = n /\ UNCHANGED result
                 ELSE Return(Err("Overflow")) /\ UNCHANGED numerator
  /\ UNCHANGED <<T, input, cap, denominator>>

\* if let Some(d_str) = denom_str { denominator = parse_val(d_str)?; }
Fraction ==
  /\ pc = "branch"
  /\ cap.denom.some
  /\ LET d == ParseVal(cap.denom.str, T) IN
     IF d.some
       THEN pc' = "sign" /\ denominator' = d /\ UNCHANGED result
       ELSE Return(Err("Overflow")) /\ UNCHANGED denominator
  /\ conversions' = conversions + 1
  /\ UNCHANGED <<T, input, cap, numerator>>

\* else { denominator = T::one(); if let Some(dec) = decimal_str { ... } ...
Decimal ==
  /\ pc = "branch"
  /\ ~cap.denom.some
  /\ IF cap.decimal.some
       THEN LET r == DecimalStep(numerator.val, cap.decimal.str, T) IN
            /\ conversions' = conversions + 1
            /\ IF r.err = ""
                 THEN /\ pc' = "exponent"
                      /\ numerator' = Some(r.numer)
                      /\ denominator' = Some(r.denom)
                      /\ UNCHANGED result
                 ELSE Return(Err(r.err)) /\ UNCHANGED <<numerator, denominator>>
       ELSE /\ pc' = "exponent"
            /\ denominator' = Some(1)
            /\ UNCHANGED <<numerator, conversions, result>>
  /\ UNCHANGED <<T, input, cap>>

\* ... if let Some(exp_s) = exp_str { ... } }
Exponent ==
  /\ pc = "exponent"
  /\ IF cap.exp.some
       THEN LET r == ExponentStep(numerator.val, denominator.val, cap.exp.str, T) IN
            /\ conversions' = conversions + 1
            /\ IF r.err = ""
                 THEN /\ pc' = "sign"
                      /\ numerator' = Some(r.numer)
                      /\ denominator' = Some(r.denom)
                      /\ UNCHANGED result
                 ELSE Return(Err(r.err)) /\ UNCHANGED <<numerator, denominator>>
       ELSE pc' = "sign" /\ UNCHANGED <<numerator, denominator, conversions, result>>
  /\ UNCHANGED <<T, input, cap>>

\* if sign_str == "-" { numerator = -numerator; }
ApplySign ==
  /\ pc = "sign"
  /\ pc' = "construct"
  /\ numerator' = IF cap.sign = <<"-">> THEN Some(Negate(numerator.val, T)) ELSE numerator
  /\ UNCHANGED <<T, input, cap, denominator, conversions, result>>

\* Variant: the denominator is not checked, and Ratio::new panics on zero.
ConstructUnchecked ==
  /\ pc = "construct"
  /\ IF denominator.val = 0
       THEN Return([kind |-> "Panic", numer |-> 0, denom |-> 0])
       ELSE Return(RatioNew(numerator.val, denominator.val))
  /\ UNCHANGED <<T, input, cap, numerator, denominator, conversions>>

\* if denominator.is_zero() { return Err(ZeroDenominator) }
\* Ok(Ratio::new(numerator, denominator))
Construct ==
  /\ pc = "construct"
  /\ IF denominator.val = 0
       THEN Return(Err("ZeroDenominator"))
       ELSE Return(RatioNew(numerator.val, denominator.val))
  /\ UNCHANGED <<T, input, cap, numerator, denominator, conversions>>

Next ==
  \/ Match
  \/ Guard
  \/ ParseNumerator
  \/ Fraction
  \/ Decimal
  \/ Exponent
  \/ ApplySign
  \/ Construct

Spec == Init /\ [][Next]_vars

\* The parser run step by step returns what the function returns.
StepsAgree == pc = "done" => result = FromStrFlex(input, T)

\* ------------------------------------------------- the value of a literal

Done == pc = "done"

IsOk == Done /\ result.kind = "Ok"

\* The natural number a run of ASCII digits denotes, or limit + 1 when it is
\* larger than limit.
RECURSIVE NatOfAcc(_, _, _, _)
NatOfAcc(s, i, acc, limit) ==
  IF i > Len(s) THEN acc
  ELSE IF acc * 10 + DigitVal(s[i]) > limit THEN limit + 1
  ELSE NatOfAcc(s, i + 1, acc * 10 + DigitVal(s[i]), limit)

NatOf(s, limit) == NatOfAcc(StripUnderscores(s), 1, 0, limit)

Zeros(k) == [i \in 1..k |-> "0"]

\* r/q, with 0 <= r < q, has exactly the decimal expansion 0.ds.
RECURSIVE LongDivision(_, _, _)
LongDivision(r, q, ds) ==
  IF Len(ds) = 0 THEN r = 0
  ELSE /\ (r * 10) \div q = DigitVal(ds[1])
       /\ LongDivision((r * 10) % q, q, Tail(ds))

\* p/q, q > 0, is the number written with the integer digits int and the
\* fractional digits frac, negated when neg.
IsDecimalValue(p, q, neg, int, frac, bits) ==
  /\ q > 0
  /\ IF neg THEN p <= 0 ELSE p >= 0
  /\ NatOf(int, MaxOf(bits)) = Abs(p) \div q
  /\ LongDivision(Abs(p) % q, q, frac)

\* The digits of int.frac * 10^e, split at the shifted decimal point.
ShiftedInt(int, frac, e) ==
  LET all == int \o frac
      point == Len(int) + e
  IN  IF point >= Len(all) THEN all \o Zeros(point - Len(all))
      ELSE IF point <= 0 THEN << >>
      ELSE SubSeq(all, 1, point)

ShiftedFrac(int, frac, e) ==
  LET all == int \o frac
      point == Len(int) + e
  IN  IF point >= Len(all) THEN << >>
      ELSE IF point <= 0 THEN Zeros(0 - point) \o all
      ELSE SubSeq(all, point + 1, Len(all))

ExpDigits(e) == IF Len(e) > 0 /\ e[1] \in {"+", "-"} THEN Tail(e) ELSE e

\* The result r is the exact value of the literal whose tokens are c.
IsExactValue(r, c, bits) ==
  LET neg == c.sign = <<"-">>
      int == StripUnderscores(c.num)
      frac == StripUnderscores(c.decimal.str)
      mag == NatOf(ExpDigits(c.exp.str), bits)
      e == IF Len(c.exp.str) > 0 /\ c.exp.str[1] = "-" THEN 0 - mag ELSE mag
      N == NatOf(c.num, MaxOf(bits))
      D == NatOf(c.denom.str, MaxOf(bits))
  IN  IF c.denom.some
        THEN /\ N <= MaxOf(bits) /\ D <= MaxOf(bits) /\ D > 0
             /\ r.denom > 0
             /\ r.numer * D = (IF neg THEN 0 - N ELSE N) * r.denom
        ELSE /\ mag <= bits
             /\ IsDecimalValue(r.numer, r.denom, neg,
                               ShiftedInt(int, frac, e), ShiftedFrac(int, frac, e), bits)

\* ------------------------------------------------------ kinds of input

NonAsciiDigitLike == {"FW3", "FW0", "SUP3"}

IsAscii(s) == \A i \in 1..Len(s) : s[i] \notin NonAsciiDigitLike

\* The input matches the grammar, is ASCII, and has a digit in its integer
\* or fractional part.
IsAsciiLiteral ==
  /\ IsAscii(input)
  /\ cap.matched
  /\ (Len(cap.num) > 0 \/ Len(cap.decimal.str) > 0)

\* The integer and fractional digits, taken together, and the power of ten
\* of the fractional digits are values of T.
MantissaFits ==
  LET int == StripUnderscores(cap.num)
      frac == StripUnderscores(cap.decimal.str)
  IN  /\ NatOf(<<"1">> \o frac, MaxOf(T)) <= MaxOf(T)
      /\ NatOf(int \o frac, MaxOf(T)) <= MaxOf(T)

\* C1: whenever from_str_flex returns Ok, the ratio returned is the exact
\* value of the literal (sign * n/d for a fraction, sign * (integer part +
\* fractional part / 10^k) * 10^exponent otherwise) and its numerator and
\* denominator are values of T: nothing has wrapped around or saturated.
\* A fraction literal fails with Overflow exactly when its numerator or its
\* denominator exceeds MAX(T), any literal does when its integer part
\* exceeds MAX(T), and a decimal literal whose digits fit T succeeds.
C1_OkIsExact ==
  /\ IsOk => /\ InRange(result.numer, T) /\ InRange(result.denom, T)
             /\ IsExactValue(result, cap, T)
  /\ Done /\ IsAsciiLiteral =>
       LET N == NatOf(cap.num, MaxOf(T))
           D == NatOf(cap.denom.str, MaxOf(T))
       IN  /\ cap.denom.some =>
                (result.kind = "Overflow" <=> N > MaxOf(T) \/ D > MaxOf(T))
           /\ N > MaxOf(T) => result.kind = "Overflow"
           /\ ~cap.denom.some /\ ~cap.exp.some /\ MantissaFits => result.kind = "Ok"

\* C1 witness: a scientific literal with fractional digits and a negative
\* sign has been parsed to a ratio that is not an integer.
C1_Witness ==
  /\ IsOk /\ cap.exp.some /\ Len(cap.decimal.str) > 0 /\ cap.sign = <<"-">>
  /\ result.denom > 1 /\ result.numer < 0

\* C2: an input with a non-ASCII digit-like character (superscript,
\* fullwidth digit, any Unicode decimal digit) is rejected with ParseError,
\* never with Overflow or ZeroDenominator, and never accepted.
C2_NonAsciiDigitIsParseError ==
  Done /\ ~IsAscii(input) => result.kind = "ParseError"

\* A digit run that denotes the integer 0.
DenotesZero(s) == Len(s) > 0 /\ \A i \in 1..Len(s) : s[i] \in {"0", "_"}

\* An ASCII fraction literal: sign, integer digits, '/', denominator digits.
IsFractionLiteral == IsAsciiLiteral /\ cap.denom.some /\ Len(cap.num) > 0

\* C3 as stated: a fraction literal whose denominator denotes 0 fails with
\* ZeroDenominator whatever its numerator is.
C3_ZeroDenominatorAlways ==
  Done /\ IsFractionLiteral /\ DenotesZero(cap.denom.str)
    => result.kind = "ZeroDenominator"

\* C3 amended: a fraction literal whose denominator denotes 0 fails with
\* ZeroDenominator when its numerator's magnitude is at most MAX(T), and
\* with Overflow when it is larger; never with ParseError.
C3_ZeroDenominatorIfNumeratorFits ==
  Done /\ IsFractionLiteral /\ DenotesZero(cap.denom.str)
    => result.kind = (IF NatOf(cap.num, MaxOf(T)) <= MaxOf(T)
                        THEN "ZeroDenominator" ELSE "Overflow")

\* C3 witness: a negative fraction with a nonzero numerator and a zero
\* denominator written with a separator has been rejected.
C3_Witness ==
  /\ Done /\ IsFractionLiteral /\ DenotesZero(cap.denom.str)
  /\ Contains(cap.denom.str, "_") /\ cap.sign = <<"-">>
  /\ NatOf(cap.num, MaxOf(T)) > 0
  /\ result.kind = "ZeroDenominator"

RECURSIVE StripLeadingZeros(_)
StripLeadingZeros(s) ==
  IF Len(s) > 1 /\ s[1] = "0" THEN StripLeadingZeros(Tail(s)) ELSE s

\* a > b for runs of ASCII digits without leading zeros.
DigitsGreater(a, b) ==
  \/ Len(a) > Len(b)
  \/ /\ Len(a) = Len(b)
     /\ \E i \in 1..Len(a) :
          /\ DigitVal(a[i]) > DigitVal(b[i])
          /\ \A j \in 1..(i - 1) : a[j] = b[j]

\* The exponent token denotes an integer outside the range of i32.
ExpOutsideI32(e) ==
  LET mag == StripLeadingZeros(StripUnderscores(ExpDigits(e)))
      max == ToDigits(MaxOf(ExpBits))
      min == Append(SubSeq(max, 1, Len(max) - 1), "8")
  IN  /\ Len(e) > 0
      /\ DigitsGreater(mag, IF e[1] = "-" THEN min ELSE max)

\* C4 as stated: for an ASCII input that matches the grammar and has a
\* digit, no failure is reported as ParseError, also not a too large exponent.
C4_NeverParseError ==
  Done /\ IsAsciiLiteral => result.kind # "ParseError"

\* C4 amended: for an ASCII input that matches the grammar and has a digit,
\* ParseError is reported only when the exponent does not fit a signed
\* 32-bit integer, and it is reported then whenever the integer and
\* fractional parts fit T; every other failure of a too large value is
\* Overflow.
C4_ParseErrorOnlyForExponent ==
  Done /\ IsAsciiLiteral =>
    /\ result.kind = "ParseError" => ExpOutsideI32(cap.exp.str)
    /\ ExpOutsideI32(cap.exp.str) => result.kind \in {"ParseError", "Overflow"}
    /\ ExpOutsideI32(cap.exp.str) /\ MantissaFits => result.kind = "ParseError"

\* C4 witness: a literal with a fractional part and an exponent below the
\* smallest i32 has been rejected with ParseError.
C4_Witness ==
  /\ Done /\ IsAsciiLiteral /\ ExpOutsideI32(cap.exp.str)
  /\ cap.exp.str[1] = "-" /\ Len(cap.decimal.str) > 0
  /\ result.kind = "ParseError"

\* C5: an input that matches the grammar and contains underscores gets the
\* result of the same input with all underscores removed.
C5_UnderscoresDoNotMatter ==
  Done /\ cap.matched /\ Contains(input, "_")
    => result = FromStrFlex(StripUnderscores(input), T)

\* A plain integer literal: an optional sign and ASCII digits.
IsPlainInteger(s) ==
  /\ Len(s) > 0
  /\ LET d == ExpDigits(s) IN
       Len(d) > 0 /\ \A i \in 1..Len(d) : d[i] \in AsciiDigits

\* C6: a plain integer literal parses to its value over 1 exactly when the
\* magnitude of its digits is at most 2^(w-1) - 1, w the width of T, and
\* fails with Overflow otherwise, with or without a leading '-'.
C6_IntegerBoundary ==
  Done /\ IsPlainInteger(input) =>
    LET mag == NatOf(ExpDigits(input), MaxOf(T)) IN
    IF mag <= 2 ^ (T - 1) - 1
      THEN result = [kind |-> "Ok",
                     numer |-> IF input[1] = "-" THEN 0 - mag ELSE mag,
                     denom |-> 1]
      ELSE result = Err("Overflow")

\* C6 witness: the literal -2^(w-1) has been rejected with Overflow.
C6_Witness ==
  /\ Done /\ input = <<"-">> \o ToDigits(MaxOf(T) + 1)
  /\ result = Err("Overflow")

IndexOf(s, c) == CHOOSE i \in 1..Len(s) : s[i] = c /\ \A j \in 1..(i - 1) : s[j] # c

\* The input with k zeros appended to its fractional part.
AppendFractionZeros(s, c, k) ==
  LET end == IndexOf(s, ".") + Len(c.decimal.str) + 1
  IN  Slice(s, 1, end) \o Zeros(k) \o Slice(s, end, Len(s) + 1)

\* Appending zeros to a fractional part of at least one digit keeps the result.
TrailingZerosKeepResult ==
  Done /\ cap.matched /\ Len(cap.decimal.str) > 0 =>
    \A k \in 1..MaxZeros : FromStrFlex(AppendFractionZeros(input, cap, k), T) = result

\* A decimal literal without exponent whose fractional digits are all zeros
\* succeeds when its integer part is a value of T.
ZeroFractionSucceeds ==
  Done /\ IsAsciiLiteral /\ DenotesZero(cap.decimal.str) /\ ~cap.exp.some
       /\ Len(cap.num) > 0 /\ NatOf(cap.num, MaxOf(T)) <= MaxOf(T)
    => result.kind = "Ok"

\* The same holds of every such literal without a separator in its
\* fractional part.
ZeroFractionSucceedsWithoutSeparator ==
  (Done /\ Contains(cap.decimal.str, "_")) \/ ZeroFractionSucceeds

\* C7: zeros appended to the fractional part never change the result, and a
\* literal whose fractional digits are all zeros succeeds whenever its
\* integer part fits T.
C7_TrailingZeros == TrailingZerosKeepResult /\ ZeroFractionSucceeds

\* After leading whitespace and an optional sign the input goes on neither
\* with a digit nor with a point and a digit: its integer part is empty and
\* its fractional part is absent or empty.
NoDigitsAhead(s) ==
  LET i0 == SkipSpace(s, 1)
      i1 == IF i0 <= Len(s) /\ s[i0] \in {"-", "+"} THEN i0 + 1 ELSE i0
  IN  /\ ~(i1 <= Len(s) /\ IsDigit(s[i1]))
      /\ ~(i1 + 1 <= Len(s) /\ s[i1] = "." /\ IsDigit(s[i1 + 1]))

\* C8: an input whose integer part is empty and whose fractional part is
\* absent or empty fails with ParseError, and no digit run of it is ever
\* converted to a number.
C8_NoDigitsIsParseError ==
  NoDigitsAhead(input) =>
    /\ conversions = 0
    /\ Done => result = Err("ParseError")

\* C8 witness: "/0"-like input, which matches the grammar with a zero
\* denominator, has been rejected by the guard.
C8_Witness ==
  /\ Done /\ NoDigitsAhead(input) /\ cap.matched /\ cap.denom.some
  /\ DenotesZero(cap.denom.str) /\ result = Err("ParseError")

Whitespace == {" ", "TAB"}

\* The input has whitespace between two other characters, neither of them
\* the '/' next to the whitespace.
HasInteriorSpace(s) ==
  \E i \in 1..Len(s) : \E lo \in 1..(i - 1) : \E hi \in (i + 1)..Len(s) :
    /\ \A j \in (lo + 1)..(hi - 1) : IsSpace(s[j])
    /\ ~IsSpace(s[lo]) /\ ~IsSpace(s[hi])
    /\ s[lo] # "/" /\ s[hi] # "/"

RemoveSpaces(s) == SelectSeq(s, LAMBDA c : ~IsSpace(c))

\* C9: whitespace before or after the input, or on either side of a '/',
\* keeps the result; whitespace anywhere else between two characters makes
\* the parse fail with ParseError.
C9_Whitespace ==
  Done =>
    /\ \A w \in Whitespace :
         /\ FromStrFlex(<<w>> \o input, T) = result
         /\ FromStrFlex(Append(input, w), T) = result
         /\ \A i \in 1..Len(input) : input[i] = "/" =>
              /\ FromStrFlex(InsertAt(input, i, w), T) = result
              /\ FromStrFlex(InsertAt(input, i + 1, w), T) = result
    /\ HasInteriorSpace(input) => result = Err("ParseError")

\* C9 witness: a literal that parses without its whitespace has been
\* rejected because of whitespace next to its decimal point.
C9_Witness ==
  /\ Done /\ HasInteriorSpace(input)
  /\ \E i \in 1..(Len(input) - 1) : input[i] = "." /\ IsSpace(input[i + 1])
  /\ FromStrFlex(RemoveSpaces(input), T).kind = "Ok"
  /\ result = Err("ParseError")

IsPowerOfTen(v, bits) == \E k \in 0..bits : v = 10 ^ k

\* C10: the denominator handed to Ratio::new is strictly positive; without
\* an explicit denominator it is a positive power of ten all along, and
\* ZeroDenominator is reported for inputs in fraction form only.
C10_DenominatorPositive ==
  /\ IsOk => denominator.val > 0
  /\ denominator.some /\ ~cap.denom.some => IsPowerOfTen(denominator.val, T)
  /\ Done /\ result.kind = "ZeroDenominator" => cap.denom.some

\* C10 witness: a literal with fractional digits and a negative exponent has
\* been handed over with a denominator of at least 100.
C10_Witness ==
  /\ IsOk /\ ~cap.denom.some /\ Len(cap.decimal.str) > 0 /\ cap.exp.some
  /\ denominator.val >= 100

\* C11: where the sign is applied the assembled numerator is in 0..MAX(T),
\* so the negation never meets MIN(T) and cannot overflow; the numerator is
\* never negative before that point, and MIN(T) is never the numerator
\* afterwards nor the numerator of a ratio returned.
C11_NegationNeverOverflows ==
  /\ pc = "sign" => numerator.some /\ 0 <= numerator.val /\ numerator.val <= MaxOf(T)
  /\ pc \in {"branch", "exponent"} => 0 <= numerator.val /\ numerator.val <= MaxOf(T)
  /\ numerator.some => numerator.val # MinOf(T)
  /\ IsOk => result.numer # MinOf(T)

\* C11 witness: the sign '-' is about to be applied to a numerator equal to
\* MAX(T).
C11_Witness ==
  /\ pc = "sign" /\ cap.sign = <<"-">>
  /\ numerator.val = MaxOf(T)

====
